---- MODULE Spec2Model ----
(***************************************************************************)
(* The artimate pixel-buffer runtime (src/src/app.rs): construction of an  *)
(* App, the builder calls and handler registrations made before run(), the *)
(* winit event loop delivering resumed / window events to the App, the     *)
(* redraw cycle, the Cmd+S snapshot and the frame-saving worker thread.    *)
(***************************************************************************)
EXTENDS Integers, Sequences, FiniteSets, TLC

(* ------------------------------ bounds -------------------------------- *)
\* largest frame limit passed to set_frames
MaxLimit == 2
\* largest save quota passed to set_frames_to_save
MaxQuota == 2
\* redraw cycles started in one run
MaxCycles == 4
\* input events (key, mouse, cursor, modifier) delivered in one run
MaxInputs == 2
\* handler registrations made before run()
MaxRegs == 1
\* handler registrations made before run() where registries are studied
MaxRegLog == 2
\* ticks of the clock
MaxClock == 2

(* ------------------------------ domains ------------------------------- *)
\* logical keys: "x" is an ordinary key, "s" is the snapshot key
Keys == {"x", "s"}
Buttons == {"Left"}
\* user callbacks: SetFlag sets the model flag, ClearFlag clears it
SetFlag == "SetFlag"
ClearFlag == "ClearFlag"
Handlers == {SetFlag, ClearFlag}
NoHandler == "none"
KeyStates == {"Pressed", "Released"}
Positions == {0, 1}
\* the entries of the four registries: <<registry, key or button>>
Slots == ({"held", "press", "release"} \X Keys) \cup ({"mouse"} \X Buttons)

\* Option<u32>
None == [some |-> FALSE, val |-> 0]
Some(k) == [some |-> TRUE, val |-> k]

VARIABLES
    \* ---- fields of App
    config,                 \* Config: width, height, no_loop, frames, frames_to_save
    update,                 \* TRUE iff update is Some (AppMode), FALSE in SketchMode
    model,                  \* the user model M
    frame_count,
    window,                 \* TRUE iff window is Some
    pixels,                 \* TRUE iff pixels is Some
    mouse_position,
    frame_sender,           \* TRUE iff frame_sender is Some
    key_handlers,           \* Key -> handler (held registry)
    key_press_handlers,
    key_release_handlers,
    mouse_handlers,
    keys_down,
    modifiers,              \* TRUE iff a super key is pressed
    \* ---- the host event loop and the process
    phase,                  \* "setup", "running", "exiting", "done", "panicked"
    redraw_pending,         \* a RedrawRequested event is owed to the window
    result,                 \* what run() returned: "none", "Ok", "Err"
    summary,                \* the end-of-run statistics were printed
    loop_error,             \* run_app itself returned an EventLoopError
    \* ---- the channel and the worker thread
    chan,                   \* save requests sent and not yet received
    saved,                  \* the worker's outcomes, in order: <<frame, ok, filename>>
    worker_alive,           \* the worker thread exists and is in its receive loop
    lifetime,               \* "owned": the caller holds the App and its sender;
                            \* "dropped": the App was dropped, the channel is closed;
                            \* "exited": the process has ended
    \* ---- history of the run
    drawn,                  \* model.count seen by draw, one per redraw cycle
    completed,              \* redraw cycles that ran to their end
    sent,                   \* frame indices of the save requests sent
    inputs,                 \* input events delivered
    handled,                \* handler invocations
    regs,                   \* registrations made
    reg_log,                \* per registry entry, the handlers registered, in order
    invoked,                \* per registry entry, the handlers invoked, in order
    exit_cause,             \* why the loop ended: "none", "close", "render", "save_panic",
                            \* "draw_length", "snapshot_length", "window_panic"
    dir_failed,             \* creating the frames directory failed in some cycle
    snapshots,              \* Cmd+S snapshots written
    windows_made,           \* windows created by create_window
    surfaces_made,          \* presentation surfaces created by Pixels::new
    copies,                 \* buffers copied into the frame of the surface
    \* ---- time
    clock,                  \* the monotonic clock (Instant::now()), in ticks
    start_time,             \* App.start_time
    time,                   \* App.time
    run_at,                 \* the clock when run() was called, NotRun before
    \* ---- what the callbacks observed
    draw_saw,               \* app.frame_count seen by draw, one per redraw cycle
    update_saw              \* app.frame_count seen by update, one per call

appVars == <<config, update, model, frame_count, window, pixels, mouse_position,
             frame_sender, keys_down, modifiers>>
regVars == <<key_handlers, key_press_handlers, key_release_handlers, mouse_handlers>>
hostVars == <<phase, redraw_pending, result, summary, loop_error>>
workerVars == <<chan, saved, worker_alive, lifetime>>
histVars == <<drawn, completed, sent, inputs, handled, regs, reg_log, invoked,
              exit_cause, dir_failed, snapshots, windows_made, surfaces_made, copies>>
timeVars == <<clock, start_time, time, run_at>>
obsVars == <<draw_saw, update_saw>>
vars == <<appVars, regVars, hostVars, workerVars, histVars, timeVars, obsVars>>

(* ------------------------------ Config -------------------------------- *)
\* u32 dimensions: zero and non-zero
Dims == {0, 1}

\* Config::new / Config::with_dims followed by the chainable Config setters
AllConfigs ==
    [width : Dims,
     height : Dims,
     no_loop : BOOLEAN,
     frames : {None} \cup {Some(k) : k \in 0..MaxLimit},
     frames_to_save : 0..MaxQuota]

ZeroDims(c) == c.width = 0 \/ c.height = 0

\* the Configs with both dimensions positive
Configs == {c \in AllConfigs : ~ZeroDims(c)}

\* the model of AppMode: a counter that update increments and a flag for handlers
InitialModel == [count |-> 0, flag |-> FALSE]

\* update: fn(&App, M) -> M of the stateful scenario: adds 1 to the counter
UpdateFn(m) == [m EXCEPT !.count = @ + 1]

\* what a registered callback does to the model (SketchMode has the unit model)
HandlerEffect(h, m, upd) ==
    IF ~upd THEN m
    ELSE IF h = SetFlag THEN [m EXCEPT !.flag = TRUE]
    ELSE IF h = ClearFlag THEN [m EXCEPT !.flag = FALSE]
    ELSE m

\* draw: the pixel buffer is a function of the model and the frame count
DrawFn(m, fc) == <<m.count, m.flag, fc>>

EmptyRegistry(D) == [k \in D |-> NoHandler]

\* a constructor that calls setup_frame_sender whatever the quota is
SenderAtConstruction_Always(c) == TRUE

\* App::sketch / App::app: the sender exists iff the Config's quota is positive
SenderAtConstruction(c) == c.frames_to_save > 0

NotRun == -1

\* Instant::elapsed: the clock now minus the instant
Elapsed(now, since) == now - since

\* App::sketch (upd = FALSE) and App::app (upd = TRUE) called with Config c
Constructed(c, upd) ==
    /\ config = c
    /\ update = upd
    /\ model = InitialModel
    /\ frame_count = 0
    /\ window = FALSE
    /\ pixels = FALSE
    /\ mouse_position = 0
    /\ frame_sender = SenderAtConstruction(config)
    /\ key_handlers = EmptyRegistry(Keys)
    /\ key_press_handlers = EmptyRegistry(Keys)
    /\ key_release_handlers = EmptyRegistry(Keys)
    /\ mouse_handlers = EmptyRegistry(Buttons)
    /\ keys_down = {}
    /\ modifiers = FALSE
    /\ phase = "setup"
    /\ redraw_pending = FALSE
    /\ result = "none"
    /\ summary = FALSE
    /\ loop_error = FALSE
    /\ chan = <<>>
    /\ saved = <<>>
    /\ worker_alive = frame_sender
    /\ lifetime = "owned"
    /\ drawn = <<>>
    /\ completed = 0
    /\ sent = <<>>
    /\ inputs = 0
    /\ handled = 0
    /\ regs = 0
    /\ reg_log = [e \in Slots |-> <<>>]
    /\ invoked = [e \in Slots |-> <<>>]
    /\ exit_cause = "none"
    /\ dir_failed = FALSE
    /\ snapshots = 0
    /\ windows_made = 0
    /\ surfaces_made = 0
    /\ copies = 0
    /\ clock = 0
    /\ start_time = clock
    /\ time = 0
    /\ run_at = NotRun
    /\ draw_saw = <<>>
    /\ update_saw = <<>>

\* an App built from a Config with positive dimensions
Init == \E c \in Configs, upd \in BOOLEAN : Constructed(c, upd)

(* ------------------- builder calls made before run() ------------------ *)
\* App::set_frames_to_save: rewrites the Config only
AppSetFramesToSave(q) ==
    /\ phase = "setup"
    /\ config' = [config EXCEPT !.frames_to_save = q]
    /\ UNCHANGED <<update, model, frame_count, window, pixels, mouse_position,
                   frame_sender, keys_down, modifiers>>
    /\ UNCHANGED <<regVars, hostVars, workerVars, histVars>>
    /\ UNCHANGED <<timeVars, obsVars>>

\* a no_loop that borrows the App (&mut self) and can so be called during the run
AppNoLoop_DuringRun ==
    /\ phase \in {"setup", "running"}
    /\ config' = [config EXCEPT !.no_loop = TRUE]
    /\ UNCHANGED <<update, model, frame_count, window, pixels, mouse_position,
                   frame_sender, keys_down, modifiers>>
    /\ UNCHANGED <<regVars, hostVars, workerVars, histVars>>
    /\ UNCHANGED <<timeVars, obsVars>>

\* App::no_loop(mut self) -> Self: consumes the App, so it is a call made before
\* run() borrows it
AppNoLoop ==
    /\ phase = "setup"
    /\ config' = [config EXCEPT !.no_loop = TRUE]
    /\ UNCHANGED <<update, model, frame_count, window, pixels, mouse_position,
                   frame_sender, keys_down, modifiers>>
    /\ UNCHANGED <<regVars, hostVars, workerVars, histVars>>
    /\ UNCHANGED <<timeVars, obsVars>>

\* App::set_frames
AppSetFrames(k) ==
    /\ phase = "setup"
    /\ config' = [config EXCEPT !.frames = Some(k)]
    /\ UNCHANGED <<update, model, frame_count, window, pixels, mouse_position,
                   frame_sender, keys_down, modifiers>>
    /\ UNCHANGED <<regVars, hostVars, workerVars, histVars>>
    /\ UNCHANGED <<timeVars, obsVars>>

\* an insertion that keeps an entry already present (entry(k).or_insert(h))
Insert_KeepsFirst(map, k, h) == IF map[k] = NoHandler THEN [map EXCEPT ![k] = h] ELSE map

\* HashMap::insert: the entry of key k becomes h
Insert(map, k, h) == [map EXCEPT ![k] = h]

\* App::on_key_held
OnKeyHeld(k, h) ==
    /\ phase = "setup"
    /\ key_handlers' = Insert(key_handlers, k, h)
    /\ regs' = regs + 1
    /\ reg_log' = [reg_log EXCEPT ![<<"held", k>>] = Append(@, h)]
    /\ UNCHANGED <<key_press_handlers, key_release_handlers, mouse_handlers>>
    /\ UNCHANGED <<appVars, hostVars, workerVars>>
    /\ UNCHANGED <<drawn, completed, sent, inputs, handled, invoked, exit_cause,
                   dir_failed, snapshots, windows_made, surfaces_made, copies>>
    /\ UNCHANGED <<timeVars, obsVars>>

\* App::on_key_press
OnKeyPress(k, h) ==
    /\ phase = "setup"
    /\ key_press_handlers' = Insert(key_press_handlers, k, h)
    /\ regs' = regs + 1
    /\ reg_log' = [reg_log EXCEPT ![<<"press", k>>] = Append(@, h)]
    /\ UNCHANGED <<key_handlers, key_release_handlers, mouse_handlers>>
    /\ UNCHANGED <<appVars, hostVars, workerVars>>
    /\ UNCHANGED <<drawn, completed, sent, inputs, handled, invoked, exit_cause,
                   dir_failed, snapshots, windows_made, surfaces_made, copies>>
    /\ UNCHANGED <<timeVars, obsVars>>

\* App::on_key_release
OnKeyRelease(k, h) ==
    /\ phase = "setup"
    /\ key_release_handlers' = Insert(key_release_handlers, k, h)
    /\ regs' = regs + 1
    /\ reg_log' = [reg_log EXCEPT ![<<"release", k>>] = Append(@, h)]
    /\ UNCHANGED <<key_handlers, key_press_handlers, mouse_handlers>>
    /\ UNCHANGED <<appVars, hostVars, workerVars>>
    /\ UNCHANGED <<drawn, completed, sent, inputs, handled, invoked, exit_cause,
                   dir_failed, snapshots, windows_made, surfaces_made, copies>>
    /\ UNCHANGED <<timeVars, obsVars>>

\* App::on_mouse_press
OnMousePress(b, h) ==
    /\ phase = "setup"
    /\ mouse_handlers' = Insert(mouse_handlers, b, h)
    /\ regs' = regs + 1
    /\ reg_log' = [reg_log EXCEPT ![<<"mouse", b>>] = Append(@, h)]
    /\ UNCHANGED <<key_handlers, key_press_handlers, key_release_handlers>>
    /\ UNCHANGED <<appVars, hostVars, workerVars>>
    /\ UNCHANGED <<drawn, completed, sent, inputs, handled, invoked, exit_cause,
                   dir_failed, snapshots, windows_made, surfaces_made, copies>>
    /\ UNCHANGED <<timeVars, obsVars>>

(* --------------------------- run() and the host ----------------------- *)
\* App::run up to event_loop.run_app(self): the event loop starts
Run ==
    /\ phase = "setup"
    /\ phase' = "running"
    /\ UNCHANGED <<redraw_pending, result, summary, loop_error>>
    /\ UNCHANGED <<appVars, regVars, workerVars, histVars>>
    /\ run_at' = clock
    /\ UNCHANGED <<clock, start_time, time, obsVars>>

\* res.map_err(..): run() returns Err exactly when run_app returned an error
RunResult(loopErr) == IF loopErr THEN "Err" ELSE "Ok"

\* a run() that prints its statistics only after a close request
RunReturn_SummaryOnCloseOnly ==
    /\ phase = "exiting"
    /\ summary' = (exit_cause = "close")
    /\ result' = RunResult(loop_error)
    /\ phase' = "done"
    /\ UNCHANGED <<redraw_pending, loop_error>>
    /\ UNCHANGED <<appVars, regVars, workerVars, histVars>>
    /\ UNCHANGED <<timeVars, obsVars>>

\* App::run after run_app returned: print the statistics, return the result
RunReturn ==
    /\ phase = "exiting"
    /\ summary' = TRUE
    /\ result' = RunResult(loop_error)
    /\ phase' = "done"
    /\ UNCHANGED <<redraw_pending, loop_error>>
    /\ UNCHANGED <<appVars, regVars, workerVars, histVars>>
    /\ UNCHANGED <<timeVars, obsVars>>

\* run_app fails by itself (an EventLoopError of the host)
HostLoopError ==
    /\ phase = "running"
    /\ phase' = "exiting"
    /\ loop_error' = TRUE
    /\ UNCHANGED <<redraw_pending, result, summary>>
    /\ UNCHANGED <<appVars, regVars, workerVars, histVars>>
    /\ UNCHANGED <<timeVars, obsVars>>

\* an assignment that builds a new value whatever the option holds
\* (self.window = Some(create_window(..)))
Creates_Always(present) == TRUE

\* Option::get_or_insert_with: the closure runs only when the option is None
Creates(present) == ~present

\* ApplicationHandler::resumed: window.get_or_insert_with(create_window(..).unwrap());
\* windowOk: create_window returns Ok. The host owes a first RedrawRequested to a
\* window it has just created
Resumed(windowOk) ==
    /\ phase = "running"
    /\ IF Creates(window) /\ ~windowOk
       THEN /\ phase' = "panicked"
            /\ exit_cause' = "window_panic"
            /\ UNCHANGED <<window, windows_made, redraw_pending>>
       ELSE /\ window' = TRUE
            /\ windows_made' = windows_made + (IF Creates(window) THEN 1 ELSE 0)
            /\ redraw_pending' = (redraw_pending \/ Creates(window))
            /\ UNCHANGED <<phase, exit_cause>>
    /\ UNCHANGED <<config, update, model, frame_count, pixels, mouse_position,
                   frame_sender, keys_down, modifiers>>
    /\ UNCHANGED <<result, summary, loop_error>>
    /\ UNCHANGED <<drawn, completed, sent, inputs, handled, regs, reg_log, invoked,
                   dir_failed, snapshots, surfaces_made, copies>>
    /\ UNCHANGED <<regVars, workerVars>>
    /\ UNCHANGED <<timeVars, obsVars>>

\* window events reach the App only while the loop runs and the window exists
Delivering == phase = "running" /\ window

\* WindowEvent::CloseRequested
CloseRequested ==
    /\ Delivering
    /\ phase' = "exiting"
    /\ exit_cause' = "close"
    /\ UNCHANGED <<redraw_pending, result, summary, loop_error>>
    /\ UNCHANGED <<drawn, completed, sent, inputs, handled, regs, reg_log, invoked,
                   dir_failed, snapshots, windows_made, surfaces_made, copies>>
    /\ UNCHANGED <<appVars, regVars, workerVars>>
    /\ time' = Elapsed(clock, start_time)
    /\ UNCHANGED <<clock, start_time, run_at, obsVars>>

(* ------------------------------ input events -------------------------- *)
\* handler(self) of a registry entry: nothing when no handler is registered
Invoke(h, m, upd) == IF h = NoHandler THEN m ELSE HandlerEffect(h, m, upd)

Calls(h) == IF h = NoHandler THEN 0 ELSE 1

\* a request made only when the loop policy would ask for another frame
RedrawAfterHandlers_LoopPolicy(pending, n) ==
    pending \/ (n > 0 /\ ~config.no_loop
                   /\ (config.frames.some => frame_count < config.frames.val))

\* a redraw requested after every key and mouse event, handled or not
RedrawAfterHandlers_Always(pending, n) == TRUE

\* handler(self); self.window.as_ref().unwrap().request_redraw(): every handler
\* invocation is followed by a redraw request; n handlers were invoked
RedrawAfterHandlers(pending, n) == pending \/ n > 0

\* the record of one invocation of the registry entry h
CallLog(h) == IF h = NoHandler THEN <<>> ELSE <<h>>

\* the registry that the first handler of a key event comes from
KeyRegistry(st) == IF st = "Pressed" THEN "press" ELSE "release"

\* a held-key set from which a released key is not removed
KeysDownAfter_NeverRemoves(down, key, st) == down \cup {key}

\* handle_keyboard_input, keys_down: insert on Pressed, remove on Released
KeysDownAfter(down, key, st) ==
    IF st = "Pressed" THEN down \cup {key} ELSE down \ {key}

\* a dispatch that looks a released key up in the press registry
KeyDispatch_ReleaseUsesPress(key, st) == <<key_press_handlers[key], NoHandler>>

\* handle_keyboard_input, the handlers an event invokes, in the order invoked:
\* Pressed -> the press handler, then the held handler; Released -> the release one
KeyDispatch(key, st) ==
    IF st = "Pressed"
    THEN <<key_press_handlers[key], key_handlers[key]>>
    ELSE <<key_release_handlers[key], NoHandler>>

\* the Cmd+S test of window_event: a Pressed "s" while a super key is down
SnapshotDue(key, st, mods) == st = "Pressed" /\ key = "s" /\ mods

\* save_frame(..).unwrap() of the snapshot path: a failed save panics
SnapshotPanics(saveOk) == ~saveOk

\* a copy that does not compare the lengths (ptr::copy_nonoverlapping)
CopyPanics_Unchecked(lenOk) == FALSE

\* frame_mut().copy_from_slice(&buffer): panics unless the two lengths are equal
CopyPanics(lenOk) == ~lenOk

\* WindowEvent::KeyboardInput: the Cmd+S snapshot, then handle_keyboard_input.
\* dirOk: download_dir() is Some and create_dir_all succeeds; saveOk: save_frame
\* returns Ok; lenOk: the buffer that draw returns has width * height * 4 bytes
KeyboardInput(key, st, dirOk, saveOk, lenOk) ==
    /\ Delivering
    /\ inputs < MaxInputs
    /\ inputs' = inputs + 1
    /\ LET copying == SnapshotDue(key, st, modifiers) /\ pixels
           saving == copying /\ dirOk
           hs == KeyDispatch(key, st)
       IN  IF copying /\ CopyPanics(lenOk)
           THEN /\ phase' = "panicked"
                /\ exit_cause' = "snapshot_length"
                /\ UNCHANGED <<model, keys_down, redraw_pending, handled, invoked,
                               snapshots, copies>>
           ELSE IF saving /\ SnapshotPanics(saveOk)
           THEN /\ phase' = "panicked"
                /\ exit_cause' = "save_panic"
                /\ copies' = copies + 1
                /\ UNCHANGED <<model, keys_down, redraw_pending, handled, invoked,
                               snapshots>>
           ELSE /\ snapshots' = snapshots + (IF saving THEN 1 ELSE 0)
                /\ copies' = copies + (IF copying THEN 1 ELSE 0)
                /\ keys_down' = KeysDownAfter(keys_down, key, st)
                /\ model' = Invoke(hs[2], Invoke(hs[1], model, update), update)
                /\ handled' = handled + Calls(hs[1]) + Calls(hs[2])
                /\ invoked' = [invoked EXCEPT
                                  ![<<KeyRegistry(st), key>>] = @ \o CallLog(hs[1]),
                                  ![<<"held", key>>] = @ \o CallLog(hs[2])]
                /\ redraw_pending' =
                       RedrawAfterHandlers(redraw_pending, Calls(hs[1]) + Calls(hs[2]))
                /\ UNCHANGED <<phase, exit_cause>>
    /\ UNCHANGED <<config, update, frame_count, window, pixels, mouse_position,
                   frame_sender, modifiers>>
    /\ UNCHANGED <<result, summary, loop_error>>
    /\ UNCHANGED <<drawn, completed, sent, regs, reg_log, dir_failed, windows_made,
                   surfaces_made>>
    /\ UNCHANGED <<regVars, workerVars>>
    /\ time' = Elapsed(clock, start_time)
    /\ UNCHANGED <<clock, start_time, run_at, obsVars>>

\* a dispatch that does not look at the state of the button
MouseDispatch_AnyState(button, st) == mouse_handlers[button]

\* MouseInput { state, button }: if state == Pressed { handle_mouse_input(button) }
MouseDispatch(button, st) ==
    IF st = "Pressed" THEN mouse_handlers[button] ELSE NoHandler

\* WindowEvent::MouseInput: handle_mouse_input on Pressed only
MouseInput(button, st) ==
    /\ Delivering
    /\ inputs < MaxInputs
    /\ inputs' = inputs + 1
    /\ LET h == MouseDispatch(button, st)
       IN  /\ model' = Invoke(h, model, update)
           /\ handled' = handled + Calls(h)
           /\ invoked' = [invoked EXCEPT ![<<"mouse", button>>] = @ \o CallLog(h)]
           /\ redraw_pending' = RedrawAfterHandlers(redraw_pending, Calls(h))
    /\ UNCHANGED <<config, update, frame_count, window, pixels, mouse_position,
                   frame_sender, keys_down, modifiers>>
    /\ UNCHANGED <<phase, result, summary, loop_error>>
    /\ UNCHANGED <<drawn, completed, sent, regs, reg_log, exit_cause, dir_failed,
                   snapshots, windows_made, surfaces_made, copies>>
    /\ UNCHANGED <<regVars, workerVars>>
    /\ time' = Elapsed(clock, start_time)
    /\ UNCHANGED <<clock, start_time, run_at, obsVars>>

\* WindowEvent::CursorMoved
CursorMoved(pos) ==
    /\ Delivering
    /\ inputs < MaxInputs
    /\ inputs' = inputs + 1
    /\ mouse_position' = pos
    /\ UNCHANGED <<config, update, model, frame_count, window, pixels,
                   frame_sender, keys_down, modifiers>>
    /\ UNCHANGED <<drawn, completed, sent, handled, regs, reg_log, invoked,
                   exit_cause, dir_failed, snapshots, windows_made, surfaces_made, copies>>
    /\ UNCHANGED <<regVars, hostVars, workerVars>>
    /\ time' = Elapsed(clock, start_time)
    /\ UNCHANGED <<clock, start_time, run_at, obsVars>>

\* WindowEvent::CursorEntered (entered) and WindowEvent::CursorLeft: they set the
\* cursor icon and visibility of the window and write no field of the App
CursorCrossed(entered) ==
    /\ Delivering
    /\ inputs < MaxInputs
    /\ inputs' = inputs + 1
    /\ UNCHANGED <<drawn, completed, sent, handled, regs, reg_log, invoked,
                   exit_cause, dir_failed, snapshots, windows_made, surfaces_made, copies>>
    /\ UNCHANGED <<appVars, regVars, hostVars, workerVars>>
    /\ time' = Elapsed(clock, start_time)
    /\ UNCHANGED <<clock, start_time, run_at, obsVars>>

\* WindowEvent::ModifiersChanged
ModifiersChanged(mods) ==
    /\ Delivering
    /\ inputs < MaxInputs
    /\ inputs' = inputs + 1
    /\ modifiers' = mods
    /\ UNCHANGED <<config, update, model, frame_count, window, pixels,
                   mouse_position, frame_sender, keys_down>>
    /\ UNCHANGED <<drawn, completed, sent, handled, regs, reg_log, invoked,
                   exit_cause, dir_failed, snapshots, windows_made, surfaces_made, copies>>
    /\ UNCHANGED <<regVars, hostVars, workerVars>>
    /\ time' = Elapsed(clock, start_time)
    /\ UNCHANGED <<clock, start_time, run_at, obsVars>>

(* ------------------------------ redraw cycle -------------------------- *)
\* the save test of the cycle: frame_count < config.frames_to_save
SaveDue(fc, cfg) == fc < cfg.frames_to_save

\* an update phase that calls the update function whatever the mode is
ModelAfterUpdate_Always(m, upd) == UpdateFn(m)

\* if let Some(update) = self.update { self.model = update(&self, model.clone()) }
ModelAfterUpdate(m, upd) == IF upd THEN UpdateFn(m) ELSE m

\* the decimal digits of n
RECURSIVE Digits(_)
Digits(n) == IF n < 10 THEN <<n>> ELSE Append(Digits(n \div 10), n % 10)

\* format!("{:04}", n): the digits of n, padded with zeros to at least four
Pad4(n) ==
    LET d == Digits(n)
    IN  IF Len(d) >= 4 THEN d ELSE [i \in 1..(4 - Len(d)) |-> 0] \o d

\* a file name made of the timestamp only, like the one of the snapshot path
\* (format!("artmate_{}.png", timestamp))
FrameFileName_TimestampOnly(ts, fc) == <<"frame", ts, <<>>>>

\* format!("frame_{}_{:04}.png", timestamp, self.frame_count); the timestamp is
\* the clock in whole seconds
FrameFileName(ts, fc) == <<"frame", ts, Pad4(fc)>>

\* a request built from the model as it is after the update of the cycle
SaveRequest_AfterUpdate(m, fc, cfg) ==
    [frame |-> fc, pixels |-> DrawFn(ModelAfterUpdate(m, update), fc),
     filename |-> FrameFileName(clock, fc),
     width |-> cfg.width, height |-> cfg.height]

\* the request handed to the worker: (frame_data, filename, width, height); the
\* file name carries the frame index
SaveRequest(m, fc, cfg) ==
    [frame |-> fc, pixels |-> DrawFn(m, fc), filename |-> FrameFileName(clock, fc),
     width |-> cfg.width, height |-> cfg.height]

\* a scheduling test that asks for a redraw only under a frame limit
WantRedraw_OnlyUnderLimit(cfg, fc) ==
    /\ ~cfg.no_loop
    /\ cfg.frames.some
    /\ fc < cfg.frames.val

\* a scheduling test that forgets the no_loop flag
WantRedraw_IgnoresNoLoop(cfg, fc) == cfg.frames.some => fc < cfg.frames.val

\* the scheduling test at the end of the cycle, made on the frame count before
\* its increment
WantRedraw(cfg, fc) ==
    /\ ~cfg.no_loop
    /\ (cfg.frames.some => fc < cfg.frames.val)

\* an increment made right after the presentation, before update is called
FrameCountAtUpdate_Incremented(fc) == fc + 1

\* update(&self, ..) is called before self.frame_count += 1: it reads the
\* frame_count that draw read
FrameCountAtUpdate(fc) == fc

\* an increment moved into the branch that requests the next redraw
NextFrameCount_OnlyWhenLooping(fc) == IF WantRedraw(config, fc) THEN fc + 1 ELSE fc

\* self.frame_count += 1
NextFrameCount(fc) == fc + 1

\* a cycle that also asks the loop to exit once the frame limit is reached
PhaseAfterRender_ExitAtLimit(renderOk) ==
    IF renderOk /\ (config.frames.some => frame_count < config.frames.val)
    THEN "running" ELSE "exiting"

\* a cycle that drops the outcome of render (let _ = pixels.render();)
PhaseAfterRender_ErrorIgnored(renderOk) == "running"

\* if let Err(_) = pixels.render() { event_loop.exit(); return; }
PhaseAfterRender(renderOk) == IF renderOk THEN "running" ELSE "exiting"

\* a channel of capacity one (sync_channel(1)): send waits while a request is queued
SendBlocks_Bounded(queue) == Len(queue) >= 1

\* mpsc::channel() is unbounded: Sender::send never waits, whatever is queued
SendBlocks(queue) == FALSE

\* Sender::send returns Ok while the receiver lives and Err once it is dropped
SendAccepted(alive) == alive

\* WindowEvent::RedrawRequested. dirOk: download_dir() is Some and create_dir_all
\* succeeds; renderOk: pixels.render() returns Ok; lenOk: the buffer that draw
\* returns has width * height * 4 bytes
RedrawRequested(dirOk, renderOk, lenOk) ==
    /\ Delivering
    /\ redraw_pending
    /\ Len(drawn) < MaxCycles
    /\ pixels' = TRUE
    /\ surfaces_made' = surfaces_made + (IF Creates(pixels) THEN 1 ELSE 0)
    /\ drawn' = Append(drawn, model.count)
    /\ draw_saw' = Append(draw_saw, frame_count)
    /\ IF CopyPanics(lenOk)
       THEN /\ phase' = "panicked"
            /\ exit_cause' = "draw_length"
            /\ redraw_pending' = FALSE
            /\ UNCHANGED <<chan, sent, dir_failed, model, frame_count, completed, copies,
                           update_saw>>
       ELSE /\ copies' = copies + 1
            /\ LET due == SaveDue(frame_count, config) /\ frame_sender
                   sending == due /\ dirOk
                   queued == sending /\ SendAccepted(worker_alive)
               IN  /\ sending => ~SendBlocks(chan)
                   /\ chan' = IF queued
                              THEN Append(chan, SaveRequest(model, frame_count, config))
                              ELSE chan
                   /\ sent' = IF queued THEN Append(sent, frame_count) ELSE sent
                   /\ dir_failed' = (dir_failed \/ (due /\ ~dirOk))
            /\ phase' = PhaseAfterRender(renderOk)
            /\ IF renderOk
               THEN /\ model' = ModelAfterUpdate(model, update)
                    /\ update_saw' = IF update
                                      THEN Append(update_saw, FrameCountAtUpdate(frame_count))
                                      ELSE update_saw
                    /\ redraw_pending' = WantRedraw(config, frame_count)
                    /\ frame_count' = NextFrameCount(frame_count)
                    /\ completed' = completed + 1
                    /\ UNCHANGED exit_cause
               ELSE /\ exit_cause' = "render"
                    /\ redraw_pending' = FALSE
                    /\ UNCHANGED <<model, frame_count, completed, update_saw>>
    /\ UNCHANGED <<config, update, window, mouse_position, frame_sender, keys_down,
                   modifiers>>
    /\ UNCHANGED <<result, summary, loop_error, saved, worker_alive, lifetime>>
    /\ UNCHANGED <<inputs, handled, regs, reg_log, invoked, snapshots, windows_made>>
    /\ UNCHANGED regVars
    /\ time' = Elapsed(clock, start_time)
    /\ UNCHANGED <<clock, start_time, run_at>>

(* ------------------------------ the worker ---------------------------- *)
\* a worker that receives once (if let Ok(..) = rx.recv()) and then ends
WorkerSurvives_OneShot(ok) == FALSE

\* a worker that unwraps the outcome of the save: a failed save ends the thread
WorkerSurvives_Unwrap(ok) == ok

\* if let Err(err) = save_frame(..) { eprintln!(..) }: the outcome is logged and
\* the while-let loop goes back to rx.recv() whatever it was
WorkerSurvives(ok) == TRUE

\* the worker thread of setup_frame_sender: rx.recv(), then save_frame; ok is the
\* outcome of save_frame (file creation, header, image data)
WorkerSave(ok) ==
    /\ worker_alive
    /\ chan # <<>>
    /\ phase # "panicked"
    /\ lifetime # "exited"
    /\ saved' = Append(saved, <<Head(chan).frame, ok, Head(chan).filename>>)
    /\ chan' = Tail(chan)
    /\ worker_alive' = WorkerSurvives(ok)
    /\ UNCHANGED lifetime
    /\ UNCHANGED <<appVars, regVars, hostVars, histVars>>
    /\ UNCHANGED <<timeVars, obsVars>>

\* the channel is closed once every Sender is dropped; the only Sender is the
\* frame_sender field of the App
ChannelClosed == lifetime # "owned"

\* run(&mut self) borrows the App: the caller can drop it, and with it the
\* Sender, only after run() has returned
DropApp ==
    /\ phase = "done"
    /\ lifetime = "owned"
    /\ lifetime' = "dropped"
    /\ UNCHANGED <<chan, saved, worker_alive>>
    /\ UNCHANGED <<appVars, regVars, hostVars, histVars>>
    /\ UNCHANGED <<timeVars, obsVars>>

\* a receive that fails as soon as the channel is closed, whatever is queued
RecvFails_OnClose(closed, queue) == closed

\* Receiver::recv returns Err only when every Sender is dropped and no request
\* is left in the channel
RecvFails(closed, queue) == closed /\ queue = <<>>

\* while let Ok(..) = rx.recv(): the worker leaves its loop, and the thread
\* ends, when recv returns Err
WorkerExit ==
    /\ worker_alive
    /\ lifetime # "exited"
    /\ RecvFails(ChannelClosed, chan)
    /\ worker_alive' = FALSE
    /\ UNCHANGED <<chan, saved, lifetime>>
    /\ UNCHANGED <<appVars, regVars, hostVars, histVars>>
    /\ UNCHANGED <<timeVars, obsVars>>

\* an exit that joins the worker: it waits until the queue is empty
ExitWaits_Join(queue) == queue # <<>>

\* thread::spawn's JoinHandle is discarded in setup_frame_sender and App has no
\* Drop impl: nothing joins the worker, whatever is queued
ExitWaits(queue) == FALSE

\* the process ends after run() has returned (main returns or calls exit); the
\* worker thread ends with it
ProcessExit ==
    /\ phase = "done"
    /\ lifetime # "exited"
    /\ ~ExitWaits(chan)
    /\ lifetime' = "exited"
    /\ UNCHANGED <<chan, saved, worker_alive>>
    /\ UNCHANGED <<appVars, regVars, hostVars, histVars>>
    /\ UNCHANGED <<timeVars, obsVars>>

\* time passes: between construction and run(), and between events
Tick ==
    /\ clock < MaxClock
    /\ clock' = clock + 1
    /\ UNCHANGED <<start_time, time, run_at, obsVars>>
    /\ UNCHANGED <<appVars, regVars, hostVars, workerVars, histVars>>

(* ------------------------------ specifications ------------------------ *)
\* The frame lifecycle and the saving of frames: every Config, both modes, the
\* builder calls, the redraw cycle, the worker. No input event is delivered.
Next ==
    \/ \E q \in 0..MaxQuota : AppSetFramesToSave(q)
    \/ AppNoLoop
    \/ \E k \in 0..MaxLimit : AppSetFrames(k)
    \/ Run
    \/ RunReturn
    \/ HostLoopError
    \/ \E windowOk \in BOOLEAN : Resumed(windowOk)
    \/ CloseRequested
    \/ \E dirOk \in BOOLEAN, renderOk \in BOOLEAN, lenOk \in BOOLEAN :
           RedrawRequested(dirOk, renderOk, lenOk)
    \/ \E ok \in BOOLEAN : WorkerSave(ok)
    \/ DropApp
    \/ WorkerExit
    \/ ProcessExit

Spec == Init /\ [][Next]_vars

\* the outcomes of a fallible call: both where the handler reaches the call, and
\* the unused success where it does not
OutcomesOf(reached) == IF reached THEN BOOLEAN ELSE {TRUE}

\* Input dispatch: handler registrations, then every kind of input event
\* interleaved with redraw cycles, for an App built from a Config with no save
\* quota (no sender, no worker).
InitInput == Init /\ config.frames_to_save = 0

NextInput ==
    \/ \E k \in Keys, h \in Handlers : regs < MaxRegs /\ OnKeyHeld(k, h)
    \/ \E k \in Keys, h \in Handlers : regs < MaxRegs /\ OnKeyPress(k, h)
    \/ \E k \in Keys, h \in Handlers : regs < MaxRegs /\ OnKeyRelease(k, h)
    \/ \E b \in Buttons, h \in Handlers : regs < MaxRegs /\ OnMousePress(b, h)
    \/ Run
    \/ RunReturn
    \/ \E windowOk \in BOOLEAN : Resumed(windowOk)
    \/ CloseRequested
    \/ \E k \in Keys, st \in KeyStates :
         \E lenOk \in OutcomesOf(SnapshotDue(k, st, modifiers) /\ pixels) :
           \E dirOk \in OutcomesOf(SnapshotDue(k, st, modifiers) /\ pixels /\ lenOk) :
             \E saveOk \in OutcomesOf(SnapshotDue(k, st, modifiers) /\ pixels
                                        /\ lenOk /\ dirOk) :
               KeyboardInput(k, st, dirOk, saveOk, lenOk)
    \/ \E b \in Buttons, st \in KeyStates : MouseInput(b, st)
    \/ \E pos \in Positions : CursorMoved(pos)
    \/ \E mods \in BOOLEAN : ModifiersChanged(mods)
    \/ \E lenOk \in BOOLEAN :
         \E renderOk \in OutcomesOf(lenOk) :
           \E dirOk \in OutcomesOf(lenOk /\ SaveDue(frame_count, config) /\ frame_sender) :
             RedrawRequested(dirOk, renderOk, lenOk)

SpecInput == InitInput /\ [][NextInput]_vars

\* Registries: up to MaxRegLog registrations in any order, so that an entry can
\* be registered twice and a key can have several handlers, then key and mouse
\* events interleaved with redraw cycles, for a stateful App that draws once
\* (no_loop) and saves nothing. Every directory and every save succeeds.
InitRegs ==
    /\ Init
    /\ update
    /\ config = [width |-> 1, height |-> 1, no_loop |-> TRUE, frames |-> None,
                 frames_to_save |-> 0]

NextRegs ==
    \/ \E k \in Keys, h \in Handlers : regs < MaxRegLog /\ OnKeyHeld(k, h)
    \/ \E k \in Keys, h \in Handlers : regs < MaxRegLog /\ OnKeyPress(k, h)
    \/ \E k \in Keys, h \in Handlers : regs < MaxRegLog /\ OnKeyRelease(k, h)
    \/ \E b \in Buttons, h \in Handlers : regs < MaxRegLog /\ OnMousePress(b, h)
    \/ Run
    \/ \E windowOk \in BOOLEAN : Resumed(windowOk)
    \/ \E k \in Keys, st \in KeyStates : KeyboardInput(k, st, TRUE, TRUE, TRUE)
    \/ \E b \in Buttons, st \in KeyStates : MouseInput(b, st)
    \/ RedrawRequested(TRUE, TRUE, TRUE)

SpecRegs == InitRegs /\ [][NextRegs]_vars

\* Zero dimensions: an App built from a Config whose width or height is 0, run
\* up to the creation of its window.
InitDims == \E c \in AllConfigs \ Configs, upd \in BOOLEAN : Constructed(c, upd)

NextDims ==
    \/ Run
    \/ RunReturn
    \/ \E windowOk \in BOOLEAN : Resumed(windowOk)
    \/ CloseRequested

SpecDims == InitDims /\ [][NextDims]_vars

\* Events of a run: the builder calls, registrations of a handler for the key
\* "x" (held, press, release) or for the left button, then every lifecycle,
\* input and redraw event, for an App built from a Config with no save quota.
\* The key "s" never has a handler.
InitEvents == Init /\ config.frames_to_save = 0

NextEvents ==
    \/ AppNoLoop
    \/ \E k \in 0..MaxLimit : AppSetFrames(k)
    \/ regs < MaxRegs /\ OnKeyHeld("x", SetFlag)
    \/ regs < MaxRegs /\ OnKeyPress("x", SetFlag)
    \/ regs < MaxRegs /\ OnKeyRelease("x", SetFlag)
    \/ regs < MaxRegs /\ OnMousePress("Left", SetFlag)
    \/ Run
    \/ RunReturn
    \/ \E windowOk \in BOOLEAN : Resumed(windowOk)
    \/ CloseRequested
    \/ \E k \in Keys, st \in KeyStates :
         \E lenOk \in OutcomesOf(SnapshotDue(k, st, modifiers) /\ pixels) :
           \E dirOk \in OutcomesOf(SnapshotDue(k, st, modifiers) /\ pixels /\ lenOk) :
             \E saveOk \in OutcomesOf(SnapshotDue(k, st, modifiers) /\ pixels
                                        /\ lenOk /\ dirOk) :
               KeyboardInput(k, st, dirOk, saveOk, lenOk)
    \/ \E b \in Buttons, st \in KeyStates : MouseInput(b, st)
    \/ \E pos \in Positions : CursorMoved(pos)
    \/ \E entered \in BOOLEAN : CursorCrossed(entered)
    \/ \E mods \in BOOLEAN : ModifiersChanged(mods)
    \/ \E lenOk \in BOOLEAN :
         \E renderOk \in OutcomesOf(lenOk) :
           RedrawRequested(TRUE, renderOk, lenOk)

SpecEvents == InitEvents /\ [][NextEvents]_vars

\* Events without a handler: a stateful App that draws once (no_loop) and saves
\* nothing, with one optional press handler for the key "x"; every kind of
\* input event is delivered while the clock ticks. The calls of the snapshot
\* path can fail.
InitQuiet ==
    /\ Init
    /\ update
    /\ config = [width |-> 1, height |-> 1, no_loop |-> TRUE, frames |-> None,
                 frames_to_save |-> 0]

NextQuiet ==
    \/ regs < MaxRegs /\ OnKeyPress("x", SetFlag)
    \/ Run
    \/ Resumed(TRUE)
    \/ \E k \in Keys, st \in KeyStates :
         \E lenOk \in OutcomesOf(SnapshotDue(k, st, modifiers) /\ pixels) :
           \E dirOk \in OutcomesOf(SnapshotDue(k, st, modifiers) /\ pixels /\ lenOk) :
             \E saveOk \in OutcomesOf(SnapshotDue(k, st, modifiers) /\ pixels
                                        /\ lenOk /\ dirOk) :
               KeyboardInput(k, st, dirOk, saveOk, lenOk)
    \/ \E b \in Buttons, st \in KeyStates : MouseInput(b, st)
    \/ \E pos \in Positions : CursorMoved(pos)
    \/ \E entered \in BOOLEAN : CursorCrossed(entered)
    \/ \E mods \in BOOLEAN : ModifiersChanged(mods)
    \/ RedrawRequested(TRUE, TRUE, TRUE)
    \/ Tick

SpecQuiet == InitQuiet /\ [][NextQuiet]_vars

\* Time: the clock ticks before and during the run of a stateful App that
\* loops up to a frame limit; key, cursor and redraw events sample the time.
InitTime ==
    /\ Init
    /\ update
    /\ config = [width |-> 1, height |-> 1, no_loop |-> FALSE, frames |-> Some(1),
                 frames_to_save |-> 0]

NextTime ==
    \/ Tick
    \/ Run
    \/ RunReturn
    \/ \E windowOk \in BOOLEAN : Resumed(windowOk)
    \/ CloseRequested
    \/ \E st \in KeyStates : KeyboardInput("x", st, TRUE, TRUE, TRUE)
    \/ \E pos \in Positions : CursorMoved(pos)
    \/ RedrawRequested(TRUE, TRUE, TRUE)

SpecTime == InitTime /\ [][NextTime]_vars

\* The frame lifecycle with a worker thread that the operating system keeps
\* scheduling (weak fairness of its step) in a process that keeps running: no
\* panic and no process exit. The run can end and the App can be dropped.
NextLive ==
    \/ \E q \in 0..MaxQuota : AppSetFramesToSave(q)
    \/ AppNoLoop
    \/ \E k \in 0..MaxLimit : AppSetFrames(k)
    \/ Run
    \/ RunReturn
    \/ HostLoopError
    \/ Resumed(TRUE)
    \/ CloseRequested
    \/ \E dirOk \in BOOLEAN, renderOk \in BOOLEAN : RedrawRequested(dirOk, renderOk, TRUE)
    \/ \E ok \in BOOLEAN : WorkerSave(ok)
    \/ DropApp
    \/ WorkerExit

SpecLive == Init /\ [][NextLive]_vars /\ WF_vars(\E ok \in BOOLEAN : WorkerSave(ok))

\* Saving with input: an App with the largest save quota and any loop policy,
\* one optional press handler for the key "x", then presses and releases of
\* that key interleaved with redraw cycles and the worker. The clock does not
\* tick: every request is sent within the same second.
InitSaves == Init /\ config.frames_to_save = MaxQuota

NextSaves ==
    \/ regs < MaxRegs /\ OnKeyPress("x", SetFlag)
    \/ Run
    \/ Resumed(TRUE)
    \/ CloseRequested
    \/ \E st \in KeyStates : KeyboardInput("x", st, TRUE, TRUE, TRUE)
    \/ \E dirOk \in BOOLEAN, renderOk \in BOOLEAN : RedrawRequested(dirOk, renderOk, TRUE)
    \/ \E ok \in BOOLEAN : WorkerSave(ok)

SpecSaves == InitSaves /\ [][NextSaves]_vars

(* ------------------------------ properties ---------------------------- *)
Min(a, b) == IF a < b THEN a ELSE b
Range(q) == {q[i] : i \in 1..Len(q)}
\* run() has been called
Started == phase # "setup"
\* every draw and every presentation so far succeeded
Presented == exit_cause \notin {"render", "draw_length"}

\* C1: with a frame limit k >= 1 and looping enabled, no input event and no failed
\* presentation, no more than k redraw cycles occur (frame_count never passes k),
\* and once k cycles have occurred no redraw is owed.
C1_ExactlyKCycles ==
    (Started /\ Presented /\ config.frames.some /\ config.frames.val >= 1
       /\ ~config.no_loop)
        => /\ Len(drawn) <= config.frames.val
           /\ frame_count <= config.frames.val
           /\ (Len(drawn) = config.frames.val => ~redraw_pending)

\* C2: with the frames directory available and every presentation successful,
\* the save requests sent so far are exactly one per frame index below
\* min(quota, cycles run), in order, and none for an index at or above the quota.
C2_SaveQuota ==
    (Started /\ Presented /\ ~dir_failed)
        => sent = [i \in 1..Min(config.frames_to_save, Len(drawn)) |-> i - 1]

\* C3: an App built from a Config with quota 0 (so without a sender) whose quota
\* was then set to q > 0 through App::set_frames_to_save has sent a save request
\* for every frame index below q that it has drawn.
C3_LateQuotaSaves ==
    (Started /\ Presented /\ ~frame_sender /\ config.frames_to_save > 0)
        => \A i \in 1..Len(drawn) :
               (i - 1 < config.frames_to_save) => (i - 1) \in Range(sent)

\* C4 (as claimed): with no_loop set, at most one redraw cycle occurs in the run,
\* whatever the frame limit and whatever input events arrive.
C4_OneCycleOnly == (Started /\ config.no_loop) => Len(drawn) <= 1

\* C4 (amended): with no_loop set, a redraw cycle never asks for another one,
\* whatever the frame limit: the cycles run and owed are at most the first one
\* plus one per handler invocation, so exactly the first one when no handler ran.
C4_OneCyclePlusHandlers ==
    (Started /\ config.no_loop)
        => Len(drawn) + (IF redraw_pending THEN 1 ELSE 0) <= 1 + handled

\* C4 witness: no_loop with a frame limit, one handler invoked, a second cycle run
C4_Witness ==
    /\ config.no_loop
    /\ config.frames.some
    /\ handled = 1
    /\ Len(drawn) = 2

\* C5: frame_count is 0 at first and always equals the number of redraw cycles
\* completed so far; a cycle cut short by a failed presentation is not counted.
C5_FrameCountIsCompleted ==
    /\ frame_count = completed
    /\ (~Started => frame_count = 0)
    /\ Len(drawn)
           = completed + (IF exit_cause \in {"render", "draw_length"} THEN 1 ELSE 0)

\* C5 witness: two completed cycles interleaved with a modifier change and a
\* Cmd+S snapshot
C5_Witness == frame_count = 2 /\ snapshots = 1 /\ inputs = 2

\* C6: with a frame limit k >= 1 and looping enabled, once k frames have been
\* rendered and no redraw is owed, the event loop has been asked to exit.
C6_ExitsAtLimit ==
    (/\ config.frames.some
     /\ ~config.no_loop
     /\ config.frames.val >= 1
     /\ completed >= config.frames.val
     /\ ~redraw_pending
     /\ phase # "panicked")
        => phase \in {"exiting", "done"}

\* C7: in stateful mode with a frame limit k >= 1, looping enabled, no input
\* event and no failed presentation, the draw of frame index i observes the
\* initial model updated i times, and the values observed over the run are
\* exactly 0 .. k-1.
C7_DrawSeesUpdates ==
    (Started /\ Presented /\ update /\ ~config.no_loop /\ config.frames.some
       /\ config.frames.val >= 1)
        => /\ \A i \in 1..Len(drawn) : drawn[i] = i - 1
           /\ Len(drawn) <= config.frames.val

\* C8: when run() has returned after a failed presentation, it returned Err.
C8_RenderErrorReturned ==
    (phase = "done" /\ exit_cause = "render") => result = "Err"

\* C9 (as claimed): when run() has returned, the summary was printed if the run
\* ended by a close request and was not printed if it ended by a failed
\* presentation.
C9_SummaryOnCloseOnly ==
    phase = "done"
        => /\ (exit_cause = "close" => summary)
           /\ (exit_cause = "render" => ~summary)

\* C9 (amended): the summary is printed exactly when run() returns, after a close
\* request and after a failed presentation alike; it is missing only when the
\* process has not reached the return of run(), as after a panic.
C9_SummaryWheneverRunReturns == summary <=> (phase = "done")

\* C9 witness: run() returned after a failed presentation and the summary is out
C9_Witness == phase = "done" /\ exit_cause = "render" /\ summary

\* C10: no failed save, in the quota path or in the Cmd+S snapshot path, ends the
\* process: the runtime never stops on a persistence failure.
C10_PersistenceNeverFatal == exit_cause # "save_panic"

\* the frame indices of a sequence of save requests
Frames(queue) == [i \in 1..Len(queue) |-> queue[i].frame]
\* the frame indices of the worker's outcomes
Outcomes(log) == [i \in 1..Len(log) |-> log[i][1]]

\* C11: a failed save does not end the worker: after any failed outcome the
\* worker is still in its receive loop while the channel is open, and what it
\* has processed followed by what is still queued is exactly what was sent, in
\* order.
C11_FailedSaveKeepsWorker ==
    /\ ((\E i \in 1..Len(saved) : ~saved[i][2]) /\ ~ChannelClosed) => worker_alive
    /\ Outcomes(saved) \o Frames(chan) = sent

\* C11 witness: the first save failed and the worker then saved the next frame
C11_Witness == Len(saved) = 2 /\ ~saved[1][2] /\ saved[2][2]

\* C12: a redraw cycle that is owed can always run to its end, whatever is
\* queued for the worker and whatever the worker is doing: the send of the save
\* request never waits, and the cycle goes on to present and count the frame.
C12_SendNeverBlocks ==
    (Delivering /\ redraw_pending /\ Len(drawn) < MaxCycles)
        => ENABLED (/\ RedrawRequested(TRUE, TRUE, TRUE)
                    /\ frame_count' = frame_count + 1)

\* C12 witness: two cycles sent their requests and completed while the worker
\* had received neither
C12_Witness == Len(chan) = 2 /\ completed = 2 /\ saved = <<>>

\* the handler most recently registered for key k in registry reg, if any
LastRegistered(reg, k) ==
    LET log == reg_log[<<reg, k>>]
    IN  IF log = <<>> THEN NoHandler ELSE log[Len(log)]

\* this step invoked exactly the handlers h1 then h2 (NoHandler: nothing)
Dispatched(reg1, reg2, k, h1, h2) ==
    /\ model' = Invoke(h2, Invoke(h1, model, update), update)
    /\ invoked' = [invoked EXCEPT ![<<reg1, k>>] = @ \o CallLog(h1),
                                  ![<<reg2, k>>] = @ \o CallLog(h2)]

\* C13: every key or mouse event invokes, for each registry it consults, the
\* handler most recently registered for that key or button and no other: a
\* handler replaced by a later registration is never invoked.
C13_LastRegistrationWins ==
    [][/\ \A k \in Keys :
             KeyboardInput(k, "Pressed", TRUE, TRUE, TRUE)
                 => Dispatched("press", "held", k, LastRegistered("press", k),
                               LastRegistered("held", k))
       /\ \A k \in Keys :
             KeyboardInput(k, "Released", TRUE, TRUE, TRUE)
                 => Dispatched("release", "held", k, LastRegistered("release", k),
                               NoHandler)
       /\ \A b \in Buttons :
             MouseInput(b, "Pressed")
                 => Dispatched("mouse", "mouse", b, LastRegistered("mouse", b),
                               NoHandler)]_vars

\* C13 witness: ClearFlag then SetFlag were registered for the press of "x"; the
\* press of "x" invoked SetFlag alone
C13_Witness ==
    /\ reg_log[<<"press", "x">>] = <<ClearFlag, SetFlag>>
    /\ invoked[<<"press", "x">>] = <<SetFlag>>
    /\ handled = 1
    /\ model.flag

\* the invocations so far of the handler of key k in registry reg
CallsOf(reg, k) ==
    Len(invoked[<<reg, k>>])

\* a Pressed event of key k is delivered and handled without a panic
PressedEvent(k) ==
    /\ \E dirOk \in BOOLEAN, saveOk \in BOOLEAN :
           KeyboardInput(k, "Pressed", dirOk, saveOk, TRUE)
    /\ phase' = "running"

\* C14: a Pressed event of key K invokes the press handler of K once when K was
\* up before the event, and not at all when K was already held (a repeat).
C14_PressOncePerTransition ==
    [][\A k \in Keys :
          PressedEvent(k)
              => CallsOf("press", k)' =
                     CallsOf("press", k)
                         + (IF k \in keys_down THEN 0 ELSE Calls(key_press_handlers[k]))]_vars

\* a redraw cycle runs to its end (the presentation succeeds)
CompletedCycle == \E dirOk \in BOOLEAN : RedrawRequested(dirOk, TRUE, TRUE)

\* C15: while key K is held, every completed redraw cycle invokes the held
\* handler of K exactly once, and a repeated Pressed event of K does not invoke it.
C15_HeldOncePerCycle ==
    [][\A k \in keys_down :
          /\ CompletedCycle
                => CallsOf("held", k)' = CallsOf("held", k) + Calls(key_handlers[k])
          /\ PressedEvent(k)
                => CallsOf("held", k)' = CallsOf("held", k)]_vars

\* the press handler of "x" sets the flag, its release handler clears it, and
\* "x" has no held handler, in stateful mode
FlagScenario ==
    /\ update
    /\ key_press_handlers["x"] = SetFlag
    /\ key_release_handlers["x"] = ClearFlag
    /\ key_handlers["x"] = NoHandler

\* C16: in the flag scenario the flag is false until a handler has run, is true
\* in the state that the press event of "x" leaves, and is false in the state
\* that the release event of "x" leaves.
C16_FlagFollowsPressRelease ==
    [][FlagScenario
          => /\ handled = 0 => ~model.flag
             /\ KeyboardInput("x", "Pressed", TRUE, TRUE, TRUE) => model'.flag
             /\ KeyboardInput("x", "Released", TRUE, TRUE, TRUE) => ~model'.flag]_vars

\* C16 witness: in the flag scenario "x" was pressed, then released; the two
\* handlers ran in that order and the flag is false again
C16_Witness ==
    /\ FlagScenario
    /\ invoked[<<"press", "x">>] = <<SetFlag>>
    /\ invoked[<<"release", "x">>] = <<ClearFlag>>
    /\ handled = 2
    /\ inputs = 2
    /\ ~model.flag

\* a redraw cycle whose draw returns a buffer of the wrong length
WrongLengthCycle ==
    \E dirOk \in BOOLEAN, renderOk \in BOOLEAN : RedrawRequested(dirOk, renderOk, FALSE)

\* C17: a redraw cycle whose draw returns a buffer of the wrong length stops
\* at the copy: the process fails there, nothing is copied to the surface, no
\* save request is sent, and the frame is neither updated nor counted.
C17_WrongLengthFailsFast ==
    [][WrongLengthCycle
          => /\ phase' = "panicked"
             /\ copies' = copies
             /\ chan' = chan
             /\ sent' = sent
             /\ model' = model
             /\ frame_count' = frame_count]_vars

\* C17 witness: frame 0 was copied and its save request sent; the draw of frame 1,
\* still within the quota, returned a wrong length and nothing was sent for it
C17_Witness ==
    /\ exit_cause = "draw_length"
    /\ config.frames_to_save = 2
    /\ frame_count = 1
    /\ copies = 1
    /\ sent = <<0>>

\* C18: an App whose Config has width 0 or height 0 does not exist past its
\* construction: it is never run and never gets a window.
C18_ZeroDimsRejected == ZeroDims(config) => (~Started /\ ~window)

\* a redraw cycle whose presentation fails
FailedPresentation == \E dirOk \in BOOLEAN : RedrawRequested(dirOk, FALSE, TRUE)

\* C19: a redraw cycle whose presentation fails asks the event loop to exit and
\* leaves the model, frame_count and the redraw request as they were: no update,
\* no increment, no further redraw.
C19_RenderFailureEndsCycle ==
    [][FailedPresentation
          => /\ phase' = "exiting"
             /\ model' = model
             /\ frame_count' = frame_count
             /\ completed' = completed
             /\ ~redraw_pending']_vars

\* C19 witness: in stateful mode the second presentation failed: one update, one
\* frame counted, the loop asked to exit
C19_Witness ==
    /\ exit_cause = "render"
    /\ update
    /\ drawn = <<0, 1>>
    /\ model.count = 1
    /\ frame_count = 1
    /\ phase = "exiting"

\* C20 (as claimed): once the first resumed signal has created the window, the
\* presentation surface exists too, and each was created exactly once.
C20_BothAtFirstResumed ==
    /\ window => pixels
    /\ windows_made <= 1
    /\ surfaces_made <= 1

\* C20 (amended): the window is created by the first resumed signal and the
\* surface by the first redraw cycle, each exactly once in the run: a later
\* resumed signal or redraw cycle creates nothing.
C20_EachCreatedOnce ==
    /\ windows_made = (IF window THEN 1 ELSE 0)
    /\ surfaces_made = (IF pixels THEN 1 ELSE 0)
    /\ pixels <=> Len(drawn) >= 1
    /\ pixels => window

\* C20 witness: after three redraw cycles there is one window and one surface
C20_Witness ==
    /\ Len(drawn) = 3
    /\ windows_made = 1
    /\ surfaces_made = 1

C22_SaveOnlyAfterPresentation ==
    [][FailedPresentation => (chan' = chan /\ sent' = sent)]_vars

\* looping is enabled and no frame limit is set
FreeRunning == ~config.no_loop /\ ~config.frames.some

\* C23: with looping enabled and no frame limit, while the loop runs and the
\* window exists a redraw is always owed: the window's first one, then the one
\* that each completed cycle requests. Only a close request, a failed
\* presentation or the end of the process stops the cycles.
C23_FreeRunKeepsRedrawing ==
    /\ (FreeRunning /\ Delivering) => redraw_pending
    /\ (FreeRunning /\ completed >= 1 /\ phase \in {"exiting", "done"})
           => (exit_cause \in {"close", "render"} \/ loop_error)

\* C23 witness: three cycles of a free-running App completed and a fourth is owed
C23_Witness ==
    /\ FreeRunning
    /\ completed = 3
    /\ redraw_pending
    /\ phase = "running"

\* C24: every step that invokes a handler leaves a redraw owed, whatever the
\* loop policy and the frame count are.
C24_HandlerRequestsRedraw == [][handled' > handled => redraw_pending']_vars

\* C24 witness: no_loop and a frame limit of 0 already passed; after the only
\* cycle a handler ran and a redraw is owed again
C24_Witness ==
    /\ config.no_loop
    /\ config.frames = Some(0)
    /\ frame_count = 1
    /\ handled = 1
    /\ redraw_pending

\* a Released event of key k is delivered and handled
ReleasedEvent(k) == KeyboardInput(k, "Released", TRUE, TRUE, TRUE)

\* C25: the held-key set is empty before the run; a Pressed event of K leaves
\* K in it and a Released event of K leaves K out of it, in the state in which
\* the handlers of the event have run; no other step changes it. So the set is
\* always the set of keys whose most recent event was Pressed.
C25_HeldSetFollowsEvents ==
    [][/\ phase = "setup" => keys_down = {}
       /\ \A k \in Keys :
             /\ PressedEvent(k) => keys_down' = keys_down \cup {k}
             /\ ReleasedEvent(k) => keys_down' = keys_down \ {k}
       /\ (\A k \in Keys : ~PressedEvent(k) /\ ~ReleasedEvent(k))
             => keys_down' = keys_down]_vars

\* C25 witness: "x" has a press and a release handler; it was pressed, then
\* released, both handlers ran and the set is empty again
C25_Witness ==
    /\ reg_log[<<"press", "x">>] = <<ClearFlag>>
    /\ reg_log[<<"release", "x">>] = <<SetFlag>>
    /\ invoked[<<"press", "x">>] = <<ClearFlag>>
    /\ invoked[<<"release", "x">>] = <<SetFlag>>
    /\ model.flag
    /\ keys_down = {}

\* this step invokes no handler, requests no redraw and leaves the model alone
NothingInvoked ==
    /\ handled' = handled
    /\ invoked' = invoked
    /\ model' = model
    /\ redraw_pending' = redraw_pending

\* C26: a press of button B with a registered handler invokes that handler
\* once and nothing else; a release of B, and a press of B without a handler,
\* invoke nothing and request no redraw.
C26_MousePressOnly ==
    [][\A b \in Buttons :
          /\ (MouseInput(b, "Pressed") /\ mouse_handlers[b] # NoHandler)
                => /\ handled' = handled + 1
                   /\ invoked' = [invoked EXCEPT
                                     ![<<"mouse", b>>] = Append(@, mouse_handlers[b])]
                   /\ model' = HandlerEffect(mouse_handlers[b], model, update)
          /\ (MouseInput(b, "Pressed") /\ mouse_handlers[b] = NoHandler)
                => NothingInvoked
          /\ MouseInput(b, "Released") => NothingInvoked]_vars

\* C26 witness: the left button, which has a handler, was pressed and released:
\* one invocation
C26_Witness ==
    /\ mouse_handlers["Left"] = SetFlag
    /\ invoked[<<"mouse", "Left">>] = <<SetFlag>>
    /\ inputs = 2
    /\ handled = 1
    /\ mouse_position = 0
    /\ keys_down = {}
    /\ ~modifiers

\* this step invokes no handler of an entry outside the set only
InvokesOnly(only) == \A e \in Slots \ only : invoked'[e] = invoked[e]

\* C27: a registration writes its own registry and leaves the other three
\* unchanged; a Pressed event of K invokes nothing but the press handler of K,
\* a Released event nothing but the release handler of K, a mouse event nothing
\* but the mouse handler of its button.
C27_RegistriesIndependent ==
    [][/\ \A k \in Keys, h \in Handlers :
             /\ OnKeyHeld(k, h)
                   => UNCHANGED <<key_press_handlers, key_release_handlers, mouse_handlers>>
             /\ OnKeyPress(k, h)
                   => UNCHANGED <<key_handlers, key_release_handlers, mouse_handlers>>
             /\ OnKeyRelease(k, h)
                   => UNCHANGED <<key_handlers, key_press_handlers, mouse_handlers>>
       /\ \A b \in Buttons, h \in Handlers :
             OnMousePress(b, h)
                 => UNCHANGED <<key_handlers, key_press_handlers, key_release_handlers>>
       /\ \A k \in Keys :
             /\ PressedEvent(k) => InvokesOnly({<<"press", k>>})
             /\ ReleasedEvent(k) => InvokesOnly({<<"release", k>>})
       /\ \A b \in Buttons, st \in KeyStates :
             MouseInput(b, st) => InvokesOnly({<<"mouse", b>>})]_vars

\* the buffer that draw returned in the cycle of frame index f (no handler runs
\* in the specification of the frame lifecycle, so the flag is as built)
DrawnBuffer(f) == DrawFn([InitialModel EXCEPT !.count = drawn[f + 1]], f)

\* every queued request holds the buffer drawn for its frame index and the
\* dimensions of the Config
QueueIsAsDrawn ==
    \A i \in 1..Len(chan) :
        chan[i] = [frame |-> chan[i].frame, pixels |-> DrawnBuffer(chan[i].frame),
                   filename |-> FrameFileName(chan[i].filename[2], chan[i].frame),
                   width |-> config.width, height |-> config.height]

\* C28: every queued save request carries the buffer that draw returned for its
\* frame index and the configured width and height, and a redraw cycle leaves
\* the requests already queued exactly as they are.
C28_RequestCarriesDrawnBuffer ==
    [][/\ QueueIsAsDrawn
       /\ QueueIsAsDrawn'
       /\ (\E dirOk \in BOOLEAN, renderOk \in BOOLEAN, lenOk \in BOOLEAN :
               RedrawRequested(dirOk, renderOk, lenOk))
             => SubSeq(chan', 1, Len(chan)) = chan]_vars

\* C28 witness: in stateful mode the requests of frames 0 and 1 are queued, each
\* with the buffer of its own cycle, after the model has been updated twice
C28_Witness ==
    /\ update
    /\ Len(chan) = 2
    /\ chan[1].pixels = DrawFn(InitialModel, 0)
    /\ chan[2].pixels = DrawFn(UpdateFn(InitialModel), 1)
    /\ model.count = 2

\* the worker handles exactly the head of the queue, and nothing else changes
\* the log of outcomes
OneAtATimeInOrder ==
    saved' # saved =>
        /\ chan # <<>>
        /\ \E ok \in BOOLEAN :
               saved' = Append(saved, <<Head(chan).frame, ok, Head(chan).filename>>)
        /\ chan' = Tail(chan)

\* the frame indices handled so far are the first requests sent, each once
HandledIsPrefixOfSent ==
    /\ Len(saved) <= Len(sent)
    /\ \A i \in 1..Len(saved) : saved[i][1] = sent[i]
    /\ \A i, j \in 1..Len(saved) : saved[i][1] = saved[j][1] => i = j

\* C29: the worker handles the requests one at a time, in the order they were
\* sent, each exactly once; it leaves its receive loop only when the channel is
\* closed and empty, and while the App with its sender is held the worker of an
\* App that has one is in its loop, whatever happened in the run.
C29_WorkerOrderAndExit ==
    /\ [](HandledIsPrefixOfSent)
    /\ []((frame_sender /\ ~ChannelClosed) => worker_alive)
    /\ [][/\ OneAtATimeInOrder
          /\ (worker_alive /\ ~worker_alive') => (ChannelClosed /\ chan = <<>>)]_vars

\* C29 witness: two requests were sent, one save failed and one succeeded, the
\* run ended, the App was dropped and the worker then left its loop
C29_Witness ==
    /\ frame_sender
    /\ ~worker_alive
    /\ lifetime = "dropped"
    /\ sent = <<0, 1>>
    /\ Len(saved) = 2
    /\ saved[1][1] = 0 /\ ~saved[1][2]
    /\ saved[2][1] = 1 /\ saved[2][2]

\* C30: run() can return and the process can exit whatever is queued for the
\* worker; the frames written never outnumber the requests sent, and nothing is
\* written once the process has ended.
C30_NobodyWaitsForWorker ==
    /\ [](phase = "exiting" => ENABLED RunReturn)
    /\ []((phase = "done" /\ lifetime # "exited") => ENABLED ProcessExit)
    /\ [](Len(saved) <= Len(sent))
    /\ [][lifetime = "exited" => (saved' = saved /\ chan' = chan)]_vars

\* C30 witness: the process has ended after two requests were sent, with one
\* frame written and the other request still queued
C30_Witness ==
    /\ lifetime = "exited"
    /\ Len(sent) = 2
    /\ Len(saved) = 1
    /\ Len(chan) = 1

\* C31: in Sketch mode (update is None) the model is the value it was built with
\* in every state, draw sees that value in every cycle, and a cycle counts,
\* schedules and saves by the same rules as in stateful mode: a completed cycle
\* adds one to frame_count and schedules by the loop policy, and a request is
\* sent only when the save is due and carries the buffer drawn for that frame.
C31_SketchNeverUpdates ==
    [][~update =>
        /\ model = InitialModel
        /\ model' = InitialModel
        /\ drawn' # drawn => drawn' = Append(drawn, InitialModel.count)
        /\ completed' # completed =>
               /\ frame_count' = frame_count + 1
               /\ redraw_pending' = WantRedraw(config, frame_count)
        /\ sent' # sent =>
               /\ SaveDue(frame_count, config)
               /\ sent' = Append(sent, frame_count)
               /\ chan'[Len(chan')].pixels = DrawFn(InitialModel, frame_count)]_vars

\* C31 witness: a sketch completed three cycles, two of them saved, and its
\* model is still the value it was built with
C31_Witness ==
    /\ ~update
    /\ completed = 3
    /\ frame_count = 3
    /\ sent = <<0, 1>>
    /\ model = InitialModel

\* C32: once run() has started, no step changes the Config or the mode.
C32_ConfigFixedOnceRunning ==
    [][phase # "setup" => (config' = config /\ update' = update)]_vars

\* C32 witness: an App whose Config was changed by builder calls before run()
\* has handled input events and completed redraw cycles with that Config
C32_Witness ==
    /\ config.no_loop
    /\ config.frames = Some(1)
    /\ regs = 1
    /\ inputs = 2
    /\ completed = 2
    /\ phase = "running"

\* the step asks the event loop to exit
ExitAsked == phase = "running" /\ phase' = "exiting"

WindowEventStep ==
    \/ inputs' # inputs
    \/ drawn' # drawn
    \/ ExitAsked /\ exit_cause' = "close"

\* C34: the handling of every window event sets the elapsed time to the time
\* passed since the call of run(), a value that never decreases from one event
\* to the next, and no other step changes it.
C34_TimeSinceRunPerEvent ==
    [][/\ WindowEventStep => (time' = Elapsed(clock, run_at) /\ time' >= time)
       /\ ~WindowEventStep => time' = time]_vars

\* the worker has taken the request of frame f and written or reported it
Taken(f) == \E i \in 1..Len(saved) : saved[i][1] = f

\* C35: every save request accepted by the channel is eventually taken by the
\* worker, which writes it or reports the failed save.
C35_EveryRequestEventuallyTaken ==
    \A f \in 0..(MaxCycles - 1) : (f \in Range(sent)) ~> Taken(f)

\* C35 witness: two requests were accepted while the worker had taken none, a
\* case the worker has to catch up from
C35_Witness ==
    /\ sent = <<0, 1>>
    /\ Len(chan) = 2
    /\ saved = <<>>
    /\ phase = "done"
    /\ lifetime = "dropped"

\* the file names of every request sent so far: those the worker has taken,
\* then those still queued
FileNames ==
    [i \in 1..Len(saved) |-> saved[i][3]] \o [i \in 1..Len(chan) |-> chan[i].filename]

\* C36: no two save requests of a run carry the same file name, and no frame
\* index is sent twice, whatever mix of scheduled and handler-requested redraw
\* cycles the run is made of.
C36_FileNamesDistinct ==
    /\ Len(FileNames) = Len(sent)
    /\ \A i, j \in 1..Len(FileNames) : FileNames[i] = FileNames[j] => i = j
    /\ \A i, j \in 1..Len(sent) : sent[i] = sent[j] => i = j

\* C36 witness: under no_loop the second cycle was requested by a handler; both
\* cycles sent their frame within the same second
C36_Witness ==
    /\ config.no_loop
    /\ handled >= 1
    /\ sent = <<0, 1>>
    /\ Len(FileNames) = 2
    /\ FileNames[1][2] = FileNames[2][2]

\* the step handles the key event (key, st)
KeyEvent(key, st) ==
    \E dirOk \in BOOLEAN, saveOk \in BOOLEAN, lenOk \in BOOLEAN :
        KeyboardInput(key, st, dirOk, saveOk, lenOk)

\* no handler is registered for the key event (key, st)
Unhandled(key, st) == KeyDispatch(key, st) = <<NoHandler, NoHandler>>

\* the step leaves the model and frame_count alone and requests no redraw
NoFrameEffect ==
    /\ model' = model
    /\ frame_count' = frame_count
    /\ redraw_pending' = redraw_pending

\* what no input event without a handler touches: the Config, the mode, the
\* window, the registries, the sender and its channel, and the frame state
QuietStep ==
    /\ NoFrameEffect
    /\ UNCHANGED <<config, update, window, pixels, frame_sender, regVars, chan>>
    /\ handled' = handled

\* the frame of the presentation surface and the snapshot files are untouched
NoSnapshotEffect == copies' = copies /\ snapshots' = snapshots /\ phase' = phase

\* the effects that the claim allows to the events without a handler; timed
\* tells whether the elapsed time may be resampled by the event
TransientOnly(timed) ==
    /\ \A pos \in Positions : CursorMoved(pos) =>
           /\ QuietStep /\ NoSnapshotEffect /\ (timed \/ time' = time)
           /\ UNCHANGED <<keys_down, modifiers>>
    /\ \A mods \in BOOLEAN : ModifiersChanged(mods) =>
           /\ QuietStep /\ NoSnapshotEffect /\ (timed \/ time' = time)
           /\ UNCHANGED <<keys_down, mouse_position>>
    /\ \A entered \in BOOLEAN : CursorCrossed(entered) =>
           /\ QuietStep /\ NoSnapshotEffect /\ (timed \/ time' = time)
           /\ UNCHANGED <<keys_down, modifiers, mouse_position>>
    /\ \A b \in Buttons, st \in KeyStates :
           (MouseInput(b, st) /\ MouseDispatch(b, st) = NoHandler) =>
               /\ QuietStep /\ NoSnapshotEffect /\ (timed \/ time' = time)
               /\ UNCHANGED <<keys_down, modifiers, mouse_position>>

\* C37 as claimed: an event without a handler changes only its own transient
\* state: a cursor move only mouse_position, a modifier change only the
\* modifiers, every key event only the held-key set, and cursor crossings,
\* mouse releases and unhandled presses nothing.
C37_UnhandledEventsTransientOnly ==
    [][/\ TransientOnly(FALSE)
       /\ \A k \in Keys, st \in KeyStates :
              (KeyEvent(k, st) /\ Unhandled(k, st)) =>
                  /\ QuietStep /\ NoSnapshotEffect /\ time' = time
                  /\ UNCHANGED <<modifiers, mouse_position>>]_vars

\* C37 amended: an event without a handler resamples the elapsed time and
\* otherwise changes only its own transient state; a key event only the
\* held-key set, unless it is a Cmd+S press with a surface, which takes its
\* snapshot first; no such event changes the model or frame_count or requests a
\* redraw.
C37_UnhandledEventsTransientAndTime ==
    [][/\ TransientOnly(TRUE)
       /\ \A k \in Keys, st \in KeyStates :
              (KeyEvent(k, st) /\ Unhandled(k, st)) =>
                  /\ QuietStep
                  /\ UNCHANGED <<modifiers, mouse_position>>
                  /\ (phase' = phase => keys_down' = KeysDownAfter(keys_down, k, st))
                  /\ ~(SnapshotDue(k, st, modifiers) /\ pixels) => NoSnapshotEffect
       /\ (inputs' # inputs) => time' = Elapsed(clock, start_time)]_vars

\* C37 witness: with a handler registered for another key, a cursor move and an
\* unhandled press of "s" after the first cycle of a no_loop App changed the
\* cursor position, the held-key set and the time, and nothing else
C37_Witness ==
    /\ config.no_loop
    /\ regs = 1
    /\ inputs = 2
    /\ handled = 0
    /\ mouse_position = 1
    /\ keys_down = {"s"}
    /\ time = 1
    /\ completed = 1
    /\ ~redraw_pending
    /\ phase = "running"

\* the step handles a press of "s" while a super key is down, and draw returns
\* a buffer of the size of the frame
SnapshotRequest ==
    /\ SnapshotDue("s", "Pressed", modifiers)
    /\ \E dirOk \in BOOLEAN, saveOk \in BOOLEAN :
           KeyboardInput("s", "Pressed", dirOk, saveOk, TRUE)

\* the press dispatch of the key "s" has run on the model as it was
PressDispatched ==
    LET hs == KeyDispatch("s", "Pressed")
    IN  /\ keys_down' = keys_down \cup {"s"}
        /\ model' = Invoke(hs[2], Invoke(hs[1], model, update), update)
        /\ handled' = handled + Calls(hs[1]) + Calls(hs[2])

\* C38: a Cmd+S snapshot request is not a redraw cycle: frame_count, the cycle
\* counts and the Config are unchanged, nothing is sent to the worker, the model
\* changes only through the press dispatch of the key, which follows the
\* snapshot, and without a presentation surface nothing is copied or saved.
C38_SnapshotIsNotACycle ==
    [][SnapshotRequest =>
        /\ frame_count' = frame_count
        /\ drawn' = drawn /\ completed' = completed
        /\ chan' = chan /\ sent' = sent
        /\ config' = config
        /\ ~pixels => (snapshots' = snapshots /\ copies' = copies)
        /\ PressDispatched]_vars

====
